---- MODULE Spec2Model ----
(***************************************************************************)
(* Closed-loop fan speed controller of modules/fan_control/fan_control.c   *)
(* (project P1_Fan_Control): tachometer edge capture with TIM2, the PI     *)
(* regulator regulateFanSpeed and the PWM compare register of TIM3         *)
(* channel 2, together with the setpoint update of the main loop.          *)
(*                                                                         *)
(* TLC integers are 32-bit signed.  uint32_t subtraction is therefore      *)
(* computed on 16-bit halves, and the single-precision arithmetic of the   *)
(* regulator is computed on (sign, 24-bit significand, exponent) triples   *)
(* with round-to-nearest-even, as the FPU of the STM32F4 does.             *)
(***************************************************************************)
EXTENDS Integers, Naturals, Sequences, FiniteSets, TLC

\* ------------------------------------------------------------------------
\* Bounds of the model
\* ------------------------------------------------------------------------

\* number of tachometer edges handled in one behaviour
MaxEdges == 4

\* number of TIM2 counting steps between an opening and a closing edge
MaxCountSteps == 2

\* calls of median_get_median in a run
MaxMedianCalls == 10

\* presses of the user button in a run of the stopwatch
MaxPresses == 17

\* minutes the stopwatch is followed for
MaxMinutes == 2

\* ------------------------------------------------------------------------
\* Program constants
\* ------------------------------------------------------------------------

MAX_PWM == 199

MIN_PWM == 15

\* volatile uint32_t frequency = 10000;
frequency == 10000

\* my_timer_init(TIMER_INSTANCE_2, TIMER_MODE_BASE, 10000, 10000): the
\* auto-reload register is period - 1, the counter runs 0 .. 9999
\* variant: the counter runs over the full 16 bits
TIM2_Period_16Bit == 2 ^ 16

TIM2_Period == 10000

\* fan_control_tim_oc_handle_struct.Pulse = 0
\* variant: the channel is configured with the lower limit as pulse
TIM3_InitialPulse_Min == 3 * 5

TIM3_InitialPulse == 0

\* samples per channel averaged by potis_dma_get_avg
PotiSamples == 100

\* scaling of fan_control_set_rpm: avg * 4500 / 4095
RpmScale == 4500

AdcFullScale == 4095

\* ------------------------------------------------------------------------
\* Single precision floating point: value = s * m * 2^e, with m = 0 or
\* 2^23 <= m < 2^24
\* ------------------------------------------------------------------------

Two12 == 2 ^ 12

Two22 == 2 ^ 22

Two23 == 2 ^ 23

Two24 == 2 ^ 24

FZero == [s |-> 1, m |-> 0, e |-> 0]

\* number of low bits to drop so that m fits in 24 bits
RECURSIVE ExcessBits(_)
ExcessBits(m) == IF m < Two24 THEN 0 ELSE 1 + ExcessBits(m \div 2)

\* round s * m * 2^e (0 <= m < 2^31) to the nearest float, ties to even
RECURSIVE FRound(_, _, _)
FRound(s, m, e) ==
    IF m = 0 THEN FZero
    ELSE IF m < Two23 THEN FRound(s, m * 2, e - 1)
    ELSE IF m < Two24 THEN [s |-> s, m |-> m, e |-> e]
    ELSE LET k  == ExcessBits(m)
             q  == m \div (2 ^ k)
             r  == m % (2 ^ k)
             h  == 2 ^ (k - 1)
             q2 == IF r > h \/ (r = h /\ q % 2 = 1) THEN q + 1 ELSE q
         IN  IF q2 = Two24 THEN [s |-> s, m |-> Two23, e |-> e + k + 1]
             ELSE [s |-> s, m |-> q2, e |-> e + k]

\* conversion int32_t -> float
IntToFloat(n) == IF n < 0 THEN FRound(-1, -n, 0) ELSE FRound(1, n, 0)

\* float * float: the 48-bit product of the significands is formed from
\* 12-bit halves as H * 2^24 + L and rounded to 24 bits
FMul(a, b) ==
    IF a.m = 0 \/ b.m = 0 THEN FZero
    ELSE LET a1  == a.m \div Two12
             a0  == a.m % Two12
             b1  == b.m \div Two12
             b0  == b.m % Two12
             mid == a1 * b0 + a0 * b1
             t   == (mid % Two12) * Two12 + a0 * b0
             L   == t % Two24
             H   == a1 * b1 + (mid \div Two12) + (t \div Two24)
             big == H >= Two23
             q   == IF big THEN H ELSE 2 * H + (L \div Two23)
             r   == IF big THEN L ELSE L % Two23
             h   == IF big THEN Two23 ELSE Two22
             ex  == a.e + b.e + (IF big THEN 24 ELSE 23)
             q2  == IF r > h \/ (r = h /\ q % 2 = 1) THEN q + 1 ELSE q
         IN  IF q2 = Two24 THEN [s |-> a.s * b.s, m |-> Two23, e |-> ex + 1]
             ELSE [s |-> a.s * b.s, m |-> q2, e |-> ex]

\* |a| >= |b| for normalised floats
FMagGe(a, b) ==
    IF b.m = 0 THEN TRUE
    ELSE IF a.m = 0 THEN FALSE
    ELSE a.e > b.e \/ (a.e = b.e /\ a.m >= b.m)

\* float + float: three extra low bits (guard, round, sticky)
FAdd(a, b) ==
    IF a.m = 0 THEN b
    ELSE IF b.m = 0 THEN a
    ELSE LET x  == IF FMagGe(a, b) THEN a ELSE b
             y  == IF FMagGe(a, b) THEN b ELSE a
             d  == x.e - y.e
         IN  IF d > 26 THEN x
             ELSE LET A  == x.m * 8
                      Bs == (y.m * 8) \div (2 ^ d)
                      st == (y.m * 8) % (2 ^ d) # 0
                      B  == IF st /\ Bs % 2 = 0 THEN Bs + 1 ELSE Bs
                      S  == IF x.s = y.s THEN A + B ELSE A - B
                  IN  FRound(x.s, S, x.e - 3)

\* a > b
FGt(a, b) ==
    IF a.m = 0 /\ b.m = 0 THEN FALSE
    ELSE IF a.m = 0 THEN b.s = -1
    ELSE IF b.m = 0 THEN a.s = 1
    ELSE IF a.s # b.s THEN a.s = 1
    ELSE IF a.s = 1 THEN ~FMagGe(b, a)
    ELSE ~FMagGe(a, b)

\* a < b
FLt(a, b) == FGt(b, a)

\* conversion float -> uint32_t (truncation), for 0 <= value < 2^31
FloatToU32(f) ==
    IF f.m = 0 THEN 0
    ELSE IF f.e >= 0 THEN f.m * (2 ^ f.e)
    ELSE IF f.e < -24 THEN 0
    ELSE f.m \div (2 ^ (0 - f.e))

\* volatile float Kp = 0.98;  the float nearest to 0.98 is 16441672 * 2^-24
Kp == [s |-> 1, m |-> 16441672, e |-> -24]

\* volatile float Ki = 2.1;   the float nearest to 2.1 is 8808038 * 2^-22
Ki == [s |-> 1, m |-> 8808038, e |-> -22]

\* ------------------------------------------------------------------------
\* 32-bit integer arithmetic
\* ------------------------------------------------------------------------

Two16 == 2 ^ 16

Two15 == 2 ^ 15

MaxInt32 == (2 ^ 30 - 1) + 2 ^ 30

\* a - b on uint32_t (0 <= a, b < 2^31), as the 16-bit halves <<hi, lo>> of
\* the difference modulo 2^32
U32Sub(a, b) ==
    IF a >= b THEN << (a - b) \div Two16, (a - b) % Two16 >>
    ELSE LET w == ((a - b) + MaxInt32) + 1
         IN  << (w \div Two16) + Two15, w % Two16 >>

\* conversion uint32_t -> int32_t of the halves <<hi, lo>> (two's complement)
ToInt32(h) ==
    IF h[1] < Two15 THEN h[1] * Two16 + h[2]
    ELSE (h[1] - Two16) * Two16 + h[2]

\* ------------------------------------------------------------------------
\* Potentiometer input: the ADC writes 12-bit samples of two channels
\* alternately into dma_address[0 .. 199]
\* ------------------------------------------------------------------------

POTIS_DMA_1 == 1

POTIS_DMA_2 == 2

\* a buffer whose channel-1 samples are a (the first k of them) and b, and
\* whose channel-2 samples are c
DmaBuffer(a, b, k, c) ==
    [i \in 0 .. 199 |-> IF i % 2 = 1 THEN c
                        ELSE IF i \div 2 < k THEN a ELSE b]

\* contents of the DMA buffer at the moments the main loop reads it
DmaBuffers ==
    { DmaBuffer(0, 0, 0, 4095),
      DmaBuffer(2700, 2780, 50, 9),
      DmaBuffer(2821, 2822, 50, 0),
      DmaBuffer(2912, 2912, 0, 17),
      DmaBuffer(4095, 4095, 0, 0) }

RECURSIVE SumSamples(_, _, _)
SumSamples(buf, i, off) ==
    IF i >= 200 THEN 0 ELSE buf[i + off] + SumSamples(buf, i + 2, off)

\* variant: the two channels are exchanged
potis_dma_get_avg_Swapped(buf, input) ==
    LET tmp == IF input = POTIS_DMA_1 THEN SumSamples(buf, 0, 1)
               ELSE IF input = POTIS_DMA_2 THEN SumSamples(buf, 0, 0)
               ELSE 0
    IN  tmp \div PotiSamples

potis_dma_get_avg(buf, input) ==
    LET tmp == IF input = POTIS_DMA_1 THEN SumSamples(buf, 0, 0)
               ELSE IF input = POTIS_DMA_2 THEN SumSamples(buf, 0, 1)
               ELSE 0
    IN  tmp \div PotiSamples

\* potis_dma_get_avg(POTIS_DMA_1) for each of the buffer contents
Channel1Average == [buf \in DmaBuffers |-> potis_dma_get_avg(buf, POTIS_DMA_1)]

\* ------------------------------------------------------------------------
\* State
\* ------------------------------------------------------------------------

VARIABLES
    fan_control_time_interval,  \* last captured TIM2 count
    fan_start_flag,             \* 0 = Idle, 1 = Measuring
    fan_control_actual_RPM,
    targetRPM,
    errorSum,
    fan_control_poti_val,
    output,                     \* float
    error,                      \* local of regulateFanSpeed, last tick
    Ta,                         \* local of regulateFanSpeed, last tick (float)
    tim2_cnt,                   \* TIM2->CNT
    tim2_en,                    \* TIM2 counter enabled
    tim3_ccr2,                  \* TIM3->CCR2, the PWM compare register
    isr_pc,                     \* position inside HAL_GPIO_EXTI_Callback
    fault,                      \* the division by zero has trapped
    edges,                      \* edges handled so far
    ticks,                      \* calls of regulateFanSpeed so far
    pwm_writes,                 \* writes of TIM3->CCR2 by regulateFanSpeed
    count_steps,                \* counting steps in the current window
    elapsed,                    \* timer ticks since the window was opened
    main_pc,                    \* position inside the while loop of main
    disp_target,                \* number printed on LCD line 2
    disp_interval,              \* number printed on LCD line 4
    disp_rpm,                   \* number printed on LCD line 6
    dma_seen,                   \* samples read by the last potis_dma_get_avg
    ringBuffer,                 \* median_get_median: static ringBuffer[9]
    pos,                        \* median_get_median: static pos
    lastMedian,                 \* median_get_median: static lastMedian
    median_ret,                 \* value returned by the last median_get_median
    median_calls,               \* calls of median_get_median so far
    start_flag,                 \* stopwatch: timer has been started
    minutes,                    \* stopwatch
    seconds,                    \* stopwatch
    milliseconds,               \* stopwatch: counter value read by main
    line_num,                   \* stopwatch: LCD line of the next lap
    sw_timer_on,                \* stopwatch: HAL_TIM_Base_Start_IT was called
    laps,                       \* stopwatch: lap lines printed so far
    lap_line,                   \* stopwatch: LCD line of the last lap printed
    lcd_lines,                  \* stopwatch: LCD lines that show a lap
    presses                     \* stopwatch: button presses handled so far

vars == << fan_control_time_interval, fan_start_flag, fan_control_actual_RPM,
           targetRPM, errorSum, fan_control_poti_val, output, error, Ta,
           tim2_cnt, tim2_en, tim3_ccr2, isr_pc, fault, edges, ticks,
           pwm_writes, count_steps, elapsed, main_pc, disp_target, disp_interval,
           disp_rpm, dma_seen, ringBuffer, pos, lastMedian, median_ret,
           median_calls, start_flag, minutes, seconds, milliseconds,
           line_num, sw_timer_on, laps, lap_line, lcd_lines, presses >>

\* the variables of fan_control.c and of the timers it uses
fan_vars == << fan_control_time_interval, fan_start_flag,
               fan_control_actual_RPM, targetRPM, errorSum,
               fan_control_poti_val, output, error, Ta, tim2_cnt, tim2_en,
               tim3_ccr2, isr_pc, fault, edges, ticks, pwm_writes,
               count_steps, elapsed >>

\* the variables of the main loop of P1_Fan_Control
main_vars == << main_pc, disp_target, disp_interval, disp_rpm, dma_seen >>

\* the variables of median.c
median_vars == << ringBuffer, pos, lastMedian, median_ret, median_calls >>

\* the variables of stopwatch.c
stopwatch_vars == << start_flag, minutes, seconds, milliseconds, line_num,
                     sw_timer_on, laps, lap_line, lcd_lines, presses >>

ctrl_vars == << fan_control_time_interval, fan_control_actual_RPM, errorSum,
                output, error, Ta, tim3_ccr2, ticks, pwm_writes >>

\* time, in TIM2 ticks of 100 us, that one counting step of the model lets pass
Elapsed == {1, 99, 100, 9900}

MEDIAN_BUFFER_LENGTH == 9

\* static storage of median_get_median
MedianInit ==
    /\ ringBuffer = [i \in 0 .. MEDIAN_BUFFER_LENGTH - 1 |-> 0]
    /\ pos = 0
    /\ lastMedian = 0
    /\ median_ret = 0
    /\ median_calls = 0

\* module variables of stopwatch.c
StopwatchInit ==
    /\ start_flag = 0
    /\ minutes = 0
    /\ seconds = 0
    /\ milliseconds = 0
    /\ line_num = 1
    /\ sw_timer_on = FALSE
    /\ laps = 0
    /\ lap_line = 0
    /\ lcd_lines = {}
    /\ presses = 0

Init ==
    /\ MedianInit
    /\ StopwatchInit
    /\ main_pc = "show_target"
    /\ disp_target = 0
    /\ disp_interval = 0
    /\ disp_rpm = 0
    /\ dma_seen = [i \in 0 .. 199 |-> 0]
    /\ elapsed = 0
    /\ fan_control_time_interval = 0
    /\ fan_start_flag = 0
    /\ fan_control_actual_RPM = 0
    /\ targetRPM = 0
    /\ errorSum = 0
    /\ fan_control_poti_val = 0
    /\ output = FZero
    /\ error = 0
    /\ Ta = FZero
    /\ tim2_cnt = 0
    /\ tim2_en = FALSE
    /\ tim3_ccr2 = TIM3_InitialPulse
    /\ isr_pc = "none"
    /\ fault = FALSE
    /\ edges = 0
    /\ ticks = 0
    /\ pwm_writes = 0
    /\ count_steps = 0

\* ------------------------------------------------------------------------
\* The regulator, regulateFanSpeed
\* ------------------------------------------------------------------------

\* variant: the multiplication by 60 done before the division
ActualRPM_MulFirst(interval) == (frequency * 60) \div (interval * 2)

\* (frequency / (fan_control_time_interval * 2)) * 60, for interval > 0
ActualRPM(interval) == (frequency \div (interval * 2)) * 60

\* result of the unsigned division by zero where it does not trap (UDIV of
\* the Cortex-M4 with DIV_0_TRP clear)
DivByZeroQuotient == 0

\* variant: the difference stops at zero instead of becoming negative
ErrorOf_Saturating(target, actual) ==
    IF target >= actual THEN target - actual ELSE 0

\* int32_t error = targetRPM - fan_control_actual_RPM
ErrorOf(target, actual) == ToInt32(U32Sub(target, actual))

\* variant: the sampling period is taken in counter ticks
SamplingPeriod_Ticks(interval) == IntToFloat(interval)

\* float Ta = fan_control_time_interval / frequency: unsigned division,
\* then conversion to float
SamplingPeriod(interval) == IntToFloat(interval \div frequency)

\* Kp * error + Ki * errorSum * Ta
PIOutput(err, es, ta) ==
    FAdd(FMul(Kp, IntToFloat(err)), FMul(FMul(Ki, IntToFloat(es)), ta))

AboveMax(out) == FGt(out, IntToFloat(MAX_PWM))

\* variant: the lower limit is never detected
BelowMin_Never(out) == FALSE

BelowMin(out) == FLt(out, IntToFloat(MIN_PWM))

\* variant: the upper limit is not enforced
Saturate_NoUpper(out) ==
    IF BelowMin(out) THEN IntToFloat(MIN_PWM) ELSE out

\* the value of output after the if / else if
Saturate(out) ==
    IF AboveMax(out) THEN IntToFloat(MAX_PWM)
    ELSE IF BelowMin(out) THEN IntToFloat(MIN_PWM)
    ELSE out

\* variant: the accumulation is undone only at the upper limit
AntiWindup_UpperOnly(out, es, err) ==
    IF AboveMax(out) THEN es - err ELSE es

\* the value of errorSum after the if / else if; es is errorSum + error
AntiWindup(out, es, err) ==
    IF AboveMax(out) THEN es - err
    ELSE IF BelowMin(out) THEN es - err
    ELSE es

\* variant: the accumulator is restarted in every tick
RegulateWith_NoCarry(rpm) ==
    LET err == ErrorOf(targetRPM, rpm)
        ta  == SamplingPeriod(fan_control_time_interval)
        es  == err
        out == PIOutput(err, es, ta)
    IN  /\ fan_control_actual_RPM' = rpm
        /\ error' = err
        /\ Ta' = ta
        /\ errorSum' = AntiWindup(out, es, err)
        /\ output' = Saturate(out)
        /\ tim3_ccr2' = FloatToU32(Saturate(out))
        /\ pwm_writes' = pwm_writes + 1

\* the body of regulateFanSpeed once the value rpm of its first expression
\* is known
RegulateWith(rpm) ==
    LET err == ErrorOf(targetRPM, rpm)
        ta  == SamplingPeriod(fan_control_time_interval)
        es  == errorSum + err
        out == PIOutput(err, es, ta)
    IN  /\ fan_control_actual_RPM' = rpm
        /\ error' = err
        /\ Ta' = ta
        /\ errorSum' = AntiWindup(out, es, err)
        /\ output' = Saturate(out)
        /\ tim3_ccr2' = FloatToU32(Saturate(out))
        /\ pwm_writes' = pwm_writes + 1

regulateFanSpeed ==
    /\ isr_pc = "regulate"
    /\ ~fault
    /\ IF fan_control_time_interval * 2 = 0
       THEN RegulateWith(DivByZeroQuotient * 60)
       ELSE RegulateWith(ActualRPM(fan_control_time_interval))
    /\ ticks' = ticks + 1
    /\ isr_pc' = "reset"
    /\ UNCHANGED << fan_control_time_interval, fan_start_flag, targetRPM,
                    fan_control_poti_val, tim2_cnt, tim2_en, fault, edges,
                    count_steps >>
    /\ UNCHANGED << main_vars, median_vars, stopwatch_vars >>
    /\ UNCHANGED elapsed

\* the other outcome of the division by zero: the division traps and the
\* processor stays in the fault handler
regulateFanSpeed_DivFault ==
    /\ isr_pc = "regulate"
    /\ ~fault
    /\ fan_control_time_interval * 2 = 0
    /\ fault' = TRUE
    /\ ticks' = ticks + 1
    /\ UNCHANGED << fan_control_time_interval, fan_start_flag,
                    fan_control_actual_RPM, targetRPM, errorSum,
                    fan_control_poti_val, output, error, Ta, tim2_cnt,
                    tim2_en, tim3_ccr2, isr_pc, edges, pwm_writes,
                    count_steps >>
    /\ UNCHANGED << main_vars, median_vars, stopwatch_vars >>
    /\ UNCHANGED elapsed

\* ------------------------------------------------------------------------
\* Edge capture, HAL_GPIO_EXTI_Callback(GPIO_PIN_1)
\* ------------------------------------------------------------------------

\* variant: the counter value is latched on every edge
EXTI_OpeningEdge_Latch ==
    /\ isr_pc = "none"
    /\ ~fault
    /\ edges < MaxEdges
    /\ fan_start_flag = 0
    /\ tim2_en' = TRUE
    /\ fan_start_flag' = 1
    /\ fan_control_time_interval' = tim2_cnt
    /\ edges' = edges + 1
    /\ count_steps' = 0
    /\ UNCHANGED << fan_control_actual_RPM, errorSum, output, error, Ta,
                    tim3_ccr2, ticks, pwm_writes, targetRPM,
                    fan_control_poti_val, tim2_cnt, isr_pc, fault >>
    /\ UNCHANGED << main_vars, median_vars, stopwatch_vars >>
    /\ elapsed' = 0

\* branch !fan_start_flag: the whole callback
EXTI_OpeningEdge ==
    /\ isr_pc = "none"
    /\ ~fault
    /\ edges < MaxEdges
    /\ fan_start_flag = 0
    /\ tim2_en' = TRUE
    /\ fan_start_flag' = 1
    /\ edges' = edges + 1
    /\ count_steps' = 0
    /\ UNCHANGED << ctrl_vars, targetRPM, fan_control_poti_val, tim2_cnt,
                    isr_pc, fault >>
    /\ UNCHANGED << main_vars, median_vars, stopwatch_vars >>
    /\ elapsed' = 0

\* variant: counter and flag are reset before the call of regulateFanSpeed
EXTI_ClosingEdge_Capture_ResetFirst ==
    /\ isr_pc = "none"
    /\ ~fault
    /\ edges < MaxEdges
    /\ fan_start_flag # 0
    /\ tim2_en' = FALSE
    /\ fan_control_time_interval' = tim2_cnt
    /\ tim2_cnt' = 0
    /\ fan_start_flag' = 0
    /\ isr_pc' = "regulate"
    /\ edges' = edges + 1
    /\ UNCHANGED << fan_control_actual_RPM, targetRPM, errorSum,
                    fan_control_poti_val, output, error, Ta, tim3_ccr2,
                    fault, ticks, pwm_writes, count_steps >>
    /\ UNCHANGED << main_vars, median_vars, stopwatch_vars >>
    /\ UNCHANGED elapsed

\* else branch, up to the call of regulateFanSpeed
EXTI_ClosingEdge_Capture ==
    /\ isr_pc = "none"
    /\ ~fault
    /\ edges < MaxEdges
    /\ fan_start_flag # 0
    /\ tim2_en' = FALSE
    /\ fan_control_time_interval' = tim2_cnt
    /\ isr_pc' = "regulate"
    /\ edges' = edges + 1
    /\ UNCHANGED << fan_start_flag, fan_control_actual_RPM, targetRPM,
                    errorSum, fan_control_poti_val, output, error, Ta,
                    tim2_cnt, tim3_ccr2, fault, ticks, pwm_writes,
                    count_steps >>
    /\ UNCHANGED << main_vars, median_vars, stopwatch_vars >>
    /\ UNCHANGED elapsed

\* variant: fan_start_flag is not cleared
EXTI_ClosingEdge_Reset_KeepFlag ==
    /\ isr_pc = "reset"
    /\ ~fault
    /\ tim2_cnt' = 0
    /\ isr_pc' = "none"
    /\ UNCHANGED << ctrl_vars, fan_start_flag, targetRPM,
                    fan_control_poti_val, tim2_en, fault, edges,
                    count_steps >>
    /\ UNCHANGED << main_vars, median_vars, stopwatch_vars >>
    /\ UNCHANGED elapsed

\* variant: the counter is reset and goes on counting to the next edge
EXTI_ClosingEdge_Reset_KeepCounting ==
    /\ isr_pc = "reset"
    /\ ~fault
    /\ tim2_cnt' = 0
    /\ tim2_en' = TRUE
    /\ count_steps' = 0
    /\ fan_start_flag' = 0
    /\ isr_pc' = "none"
    /\ UNCHANGED << ctrl_vars, targetRPM, fan_control_poti_val, fault,
                    edges >>
    /\ UNCHANGED << main_vars, median_vars, stopwatch_vars >>
    /\ UNCHANGED elapsed

\* else branch, after the return of regulateFanSpeed
EXTI_ClosingEdge_Reset ==
    /\ isr_pc = "reset"
    /\ ~fault
    /\ tim2_cnt' = 0
    /\ fan_start_flag' = 0
    /\ isr_pc' = "none"
    /\ UNCHANGED << ctrl_vars, targetRPM, fan_control_poti_val, tim2_en,
                    fault, edges, count_steps >>
    /\ UNCHANGED << main_vars, median_vars, stopwatch_vars >>
    /\ UNCHANGED elapsed

\* variant: an overflow of the counter is taken as a stalled fan
TIM2_Count_Timeout ==
    /\ isr_pc = "none"
    /\ ~fault
    /\ tim2_en
    /\ count_steps < MaxCountSteps
    /\ \E d \in Elapsed :
          /\ tim2_cnt' = (tim2_cnt + d) % TIM2_Period
          /\ elapsed' = elapsed + d
          /\ fan_control_actual_RPM' =
                 IF tim2_cnt + d >= TIM2_Period THEN 0
                 ELSE fan_control_actual_RPM
    /\ count_steps' = count_steps + 1
    /\ UNCHANGED << fan_control_time_interval, errorSum, output, error, Ta,
                    tim3_ccr2, ticks, pwm_writes, fan_start_flag, targetRPM,
                    fan_control_poti_val, tim2_en, isr_pc, fault, edges >>
    /\ UNCHANGED << main_vars, median_vars, stopwatch_vars >>

\* TIM2 counts up to its auto-reload value 9999 and restarts at 0
TIM2_Count ==
    /\ isr_pc = "none"
    /\ ~fault
    /\ tim2_en
    /\ count_steps < MaxCountSteps
    /\ \E d \in Elapsed :
          /\ tim2_cnt' = (tim2_cnt + d) % TIM2_Period
          /\ elapsed' = elapsed + d
    /\ count_steps' = count_steps + 1
    /\ UNCHANGED << ctrl_vars, fan_start_flag, targetRPM,
                    fan_control_poti_val, tim2_en, isr_pc, fault, edges >>
    /\ UNCHANGED << main_vars, median_vars, stopwatch_vars >>

\* ------------------------------------------------------------------------
\* Main loop
\* ------------------------------------------------------------------------

\* sprintf("%5lu") prints the decimal digits of the word, so the text on
\* the LCD determines the number read and is represented by it

\* sprintf(target_rpm_string, ..., fan_control_poti_val) and its display
main_show_target ==
    /\ isr_pc = "none"
    /\ ~fault
    /\ main_pc = "show_target"
    /\ disp_target' = fan_control_poti_val
    /\ main_pc' = "show_interval"
    /\ UNCHANGED << fan_vars, disp_interval, disp_rpm, dma_seen,
                    median_vars, stopwatch_vars >>

\* variant: the statement also runs while the edge handler is active
main_show_interval_Preempting ==
    /\ ~fault
    /\ main_pc = "show_interval"
    /\ disp_interval' = fan_control_time_interval
    /\ main_pc' = "show_rpm"
    /\ UNCHANGED << fan_vars, disp_target, disp_rpm, dma_seen,
                    median_vars, stopwatch_vars >>

\* sprintf(interval_string, ..., fan_control_time_interval) and its display
main_show_interval ==
    /\ isr_pc = "none"
    /\ ~fault
    /\ main_pc = "show_interval"
    /\ disp_interval' = fan_control_time_interval
    /\ main_pc' = "show_rpm"
    /\ UNCHANGED << fan_vars, disp_target, disp_rpm, dma_seen,
                    median_vars, stopwatch_vars >>

\* variant: only the low half-word of the speed is read
main_show_rpm_HalfWord ==
    /\ isr_pc = "none"
    /\ ~fault
    /\ main_pc = "show_rpm"
    /\ disp_rpm' = fan_control_actual_RPM % Two16
    /\ main_pc' = "set_rpm"
    /\ UNCHANGED << fan_vars, disp_target, disp_interval, dma_seen,
                    median_vars, stopwatch_vars >>

\* sprintf(current_rpm_string, ..., fan_control_actual_RPM) and its display
main_show_rpm ==
    /\ isr_pc = "none"
    /\ ~fault
    /\ main_pc = "show_rpm"
    /\ disp_rpm' = fan_control_actual_RPM
    /\ main_pc' = "set_rpm"
    /\ UNCHANGED << fan_vars, disp_target, disp_interval, dma_seen,
                    median_vars, stopwatch_vars >>

\* variant: a new setpoint restarts the accumulator
SetRpmFrom_ResetSum(buf) ==
    LET val == (Channel1Average[buf] * RpmScale) \div AdcFullScale
    IN  /\ isr_pc = "none"
        /\ ~fault
        /\ dma_seen' = buf
        /\ fan_control_poti_val' = val
        /\ targetRPM' = val
        /\ errorSum' = 0
        /\ UNCHANGED << fan_control_time_interval, fan_control_actual_RPM,
                        output, error, Ta, tim3_ccr2, ticks, pwm_writes,
                        fan_start_flag, tim2_cnt, tim2_en, isr_pc, fault,
                        edges, count_steps, disp_target, disp_interval,
                        disp_rpm, median_vars, stopwatch_vars >>
        /\ UNCHANGED elapsed

\* the body of fan_control_set_rpm when the DMA buffer holds buf
SetRpmFrom(buf) ==
    LET val == (Channel1Average[buf] * RpmScale) \div AdcFullScale
    IN  /\ isr_pc = "none"
        /\ ~fault
        /\ dma_seen' = buf
        /\ fan_control_poti_val' = val
        /\ targetRPM' = val
        /\ UNCHANGED << ctrl_vars, fan_start_flag, tim2_cnt, tim2_en, isr_pc,
                        fault, edges, count_steps, disp_target,
                        disp_interval, disp_rpm, median_vars,
                        stopwatch_vars >>
        /\ UNCHANGED elapsed

\* one pass of the while loop seen from the controller: the display
\* statements change no variable of fan_control.c, the call of
\* fan_control_set_rpm is the only statement that does
fan_control_set_rpm ==
    /\ \E buf \in DmaBuffers : SetRpmFrom(buf)
    /\ UNCHANGED main_pc

\* DMA buffers while the potentiometer is left at one position
PotiAtRest == { DmaBuffer(2821, 2822, 50, 0) }

\* the call of fan_control_set_rpm at the end of the loop body, statement by
\* statement after the three display statements
main_set_rpm ==
    /\ main_pc = "set_rpm"
    /\ \E buf \in PotiAtRest : SetRpmFrom(buf)
    /\ main_pc' = "show_target"

Next ==
    \/ EXTI_OpeningEdge
    \/ EXTI_ClosingEdge_Capture
    \/ regulateFanSpeed
    \/ regulateFanSpeed_DivFault
    \/ EXTI_ClosingEdge_Reset
    \/ TIM2_Count
    \/ fan_control_set_rpm

Spec == Init /\ [][Next]_vars

\* the same program with the loop body of main taken statement by statement
NextDisplay ==
    \/ EXTI_OpeningEdge
    \/ EXTI_ClosingEdge_Capture
    \/ regulateFanSpeed
    \/ regulateFanSpeed_DivFault
    \/ EXTI_ClosingEdge_Reset
    \/ TIM2_Count
    \/ main_show_target
    \/ main_show_interval
    \/ main_show_rpm
    \/ main_set_rpm

SpecDisplay == Init /\ [][NextDisplay]_vars

\* ------------------------------------------------------------------------
\* regulateFanSpeed as a function of its inputs
\* ------------------------------------------------------------------------

\* averages of channel 1 whose setpoints lie around 3000 rpm, from 20 below
\* to 220 above
TickAverages == 2712 .. 2931

\* counter values found by the closing edge
TickIntervals == {0, 1, 100, 9999}

\* values of errorSum left by earlier ticks
TickSums == {0, 200, 406}

\* the program at the entry of regulateFanSpeed: fan_control_set_rpm has
\* read a buffer with average avg, the closing edge has stored the interval,
\* and the tick before has written the lower limit
TickEntry ==
    /\ MedianInit
    /\ StopwatchInit
    /\ main_pc = "show_target"
    /\ disp_target = 0
    /\ disp_interval = 0
    /\ disp_rpm = 0
    /\ \E avg \in TickAverages :
          /\ dma_seen = DmaBuffer(avg, avg, 0, 0)
          /\ fan_control_poti_val = (avg * RpmScale) \div AdcFullScale
          /\ targetRPM = (avg * RpmScale) \div AdcFullScale
    /\ \E interval \in TickIntervals :
          /\ fan_control_time_interval = interval
          /\ tim2_cnt = interval
          /\ elapsed = IF interval = 0 THEN TIM2_Period ELSE interval
    /\ errorSum \in TickSums
    /\ fan_start_flag = 1
    /\ fan_control_actual_RPM = 3000
    /\ error = 0
    /\ Ta = FZero
    /\ output = IntToFloat(MIN_PWM)
    /\ tim3_ccr2 = MIN_PWM
    /\ tim2_en = FALSE
    /\ isr_pc = "regulate"
    /\ fault = FALSE
    /\ edges = 8
    /\ ticks = 3
    /\ pwm_writes = 3
    /\ count_steps = 1

NextTick ==
    \/ regulateFanSpeed
    \/ regulateFanSpeed_DivFault
    \/ EXTI_ClosingEdge_Reset

SpecTick == TickEntry /\ [][NextTick]_vars

\* ------------------------------------------------------------------------
\* Median filter, median.c
\* ------------------------------------------------------------------------

\* values handed to median_get_median; with values below 2^28 the sum
\* 4*lastMedian + median stays below 2^32
MedianInputs == {10, 600}

\* if (list[i] > list[i+1]) swap
BubbleCompare(list, i) ==
    IF list[i] > list[i + 1]
    THEN [list EXCEPT ![i] = list[i + 1], ![i + 1] = list[i]]
    ELSE list

\* for (i = 0; i < length - 1; i++); the list after each comparison is bound
\* as a value before the loop goes on
RECURSIVE BubblePass(_, _, _)
BubblePass(list, i, length) ==
    IF i < length - 1
    THEN CHOOSE r \in { BubblePass(swapped, i + 1, length) :
                            swapped \in {BubbleCompare(list, i)} } : TRUE
    ELSE list

\* for (j = 0; j < length; j++)
RECURSIVE BubblePasses(_, _, _)
BubblePasses(list, j, length) ==
    IF j < length
    THEN CHOOSE r \in { BubblePasses(passed, j + 1, length) :
                            passed \in {BubblePass(list, 0, length)} } : TRUE
    ELSE list

\* the contents of list after median_sort_list(list, srcList, length)
median_sort_list(srcList, length) ==
    BubblePasses([j \in 0 .. length - 1 |-> srcList[j]], 0, length)

median_get_median ==
    /\ median_calls < MaxMedianCalls
    /\ \E newElement \in MedianInputs :
          LET rb     == [ringBuffer EXCEPT ![pos] = newElement]
              list   == median_sort_list(rb, MEDIAN_BUFFER_LENGTH)
              middle == list[MEDIAN_BUFFER_LENGTH \div 2]
              median == (4 * lastMedian + 1 * middle) \div 5
          IN  /\ ringBuffer' = rb
              /\ pos' = (pos + 1) % MEDIAN_BUFFER_LENGTH
              /\ lastMedian' = median
              /\ median_ret' = median
    /\ median_calls' = median_calls + 1
    /\ UNCHANGED << fan_vars, main_vars, stopwatch_vars >>

NextMedian == median_get_median

SpecMedian == Init /\ [][NextMedian]_vars

\* ------------------------------------------------------------------------
\* Stopwatch, stopwatch.c and 08_Stopwatch/src/main.c
\* ------------------------------------------------------------------------

\* EXTI0 and TIM2 have the same preemption priority, so neither handler
\* interrupts the other and each callback is one step

\* values of the TIM2 counter at the moments the main loop reads it
StopwatchCounts == {0, 5000, 9999}

\* variant: the screen is cleared one line early
LCD_DisplayTime_EarlyWrap ==
    /\ lap_line' = line_num
    /\ laps' = laps + 1
    /\ IF line_num + 1 >= 15
       THEN /\ line_num' = 1
            /\ lcd_lines' = {}
       ELSE /\ line_num' = line_num + 1
            /\ lcd_lines' = lcd_lines \cup {line_num}

\* LCD_DisplayTime: print on line_num, then advance line_num
LCD_DisplayTime ==
    /\ lap_line' = line_num
    /\ laps' = laps + 1
    /\ IF line_num + 1 > 15
       THEN /\ line_num' = 1
            /\ lcd_lines' = {}
       ELSE /\ line_num' = line_num + 1
            /\ lcd_lines' = lcd_lines \cup {line_num}

\* variant: a press while the stopwatch runs stops it
Stopwatch_EXTI_Callback_Toggle ==
    /\ presses < MaxPresses
    /\ presses' = presses + 1
    /\ IF start_flag = 0
       THEN /\ sw_timer_on' = TRUE
            /\ start_flag' = 1
            /\ UNCHANGED << line_num, laps, lap_line, lcd_lines >>
       ELSE /\ sw_timer_on' = FALSE
            /\ start_flag' = 0
            /\ UNCHANGED << line_num, laps, lap_line, lcd_lines >>
    /\ UNCHANGED << minutes, seconds, milliseconds >>
    /\ UNCHANGED << fan_vars, main_vars, median_vars >>

\* HAL_GPIO_EXTI_Callback(GPIO_PIN_0): a press of the user button
Stopwatch_EXTI_Callback ==
    /\ presses < MaxPresses
    /\ presses' = presses + 1
    /\ IF start_flag = 0
       THEN /\ sw_timer_on' = TRUE
            /\ start_flag' = 1
            /\ UNCHANGED << line_num, laps, lap_line, lcd_lines >>
       ELSE /\ LCD_DisplayTime
            /\ UNCHANGED << sw_timer_on, start_flag >>
    /\ UNCHANGED << minutes, seconds, milliseconds >>
    /\ UNCHANGED << fan_vars, main_vars, median_vars >>

\* variant: the seconds are reset one callback late
HAL_TIM_PeriodElapsedCallback_LateWrap ==
    /\ minutes < MaxMinutes
    /\ IF start_flag = 1
       THEN IF seconds + 1 > 60
            THEN /\ seconds' = 0
                 /\ minutes' = (minutes + 1) % 256
            ELSE /\ seconds' = seconds + 1
                 /\ minutes' = minutes
       ELSE UNCHANGED << seconds, minutes >>
    /\ UNCHANGED << start_flag, milliseconds, line_num, sw_timer_on, laps,
                    lap_line, lcd_lines, presses >>
    /\ UNCHANGED << fan_vars, main_vars, median_vars >>

\* the update interrupt of TIM2; it is enabled by stopwatch_init, before
\* the timer is started, and the handler is also called by stopwatch_init
HAL_TIM_PeriodElapsedCallback ==
    /\ minutes < MaxMinutes
    /\ IF start_flag = 1
       THEN IF seconds + 1 >= 60
            THEN /\ seconds' = 0
                 /\ minutes' = (minutes + 1) % 256
            ELSE /\ seconds' = seconds + 1
                 /\ minutes' = minutes
       ELSE UNCHANGED << seconds, minutes >>
    /\ UNCHANGED << start_flag, milliseconds, line_num, sw_timer_on, laps,
                    lap_line, lcd_lines, presses >>
    /\ UNCHANGED << fan_vars, main_vars, median_vars >>

\* one pass of the while loop of main
stopwatch_start ==
    /\ start_flag = 1
    /\ \E cnt \in StopwatchCounts : milliseconds' = cnt
    /\ UNCHANGED << start_flag, minutes, seconds, line_num, sw_timer_on,
                    laps, lap_line, lcd_lines, presses >>
    /\ UNCHANGED << fan_vars, main_vars, median_vars >>

NextStopwatch ==
    \/ Stopwatch_EXTI_Callback
    \/ HAL_TIM_PeriodElapsedCallback
    \/ stopwatch_start

SpecStopwatch == Init /\ [][NextStopwatch]_vars

\* ------------------------------------------------------------------------
\* Properties
\* ------------------------------------------------------------------------

\* a step that is one complete call of regulateFanSpeed
TickStep == isr_pc = "regulate" /\ isr_pc' = "reset"

\* the value of output before the limits are applied, in the tick that
\* leads to the primed state
RawOutput == PIOutput(error', errorSum + error', Ta')

\* C1: every value regulateFanSpeed has written to the compare register of
\* TIM3 channel 2 lies in [15, 199], and so does output
C1_OutputBound ==
    pwm_writes > 0 =>
        /\ tim3_ccr2 \in 15 .. 199
        /\ ~FGt(output, IntToFloat(199))
        /\ ~FLt(output, IntToFloat(15))

\* a tick with a large positive error has written the upper limit
C1_Witness == pwm_writes > 0 /\ error > 4000 /\ tim3_ccr2 = 199

\* C2: a tick whose computed output is above 199 or below 15 leaves errorSum
\* as it was before the tick
C2_AntiWindup ==
    [][(TickStep /\ (FGt(RawOutput, IntToFloat(199))
                       \/ FLt(RawOutput, IntToFloat(15))))
          => errorSum' = errorSum]_vars

\* a tick saturated at the lower limit has run with a non-zero accumulator
C2_Witness ==
    /\ isr_pc = "reset"
    /\ errorSum # 0
    /\ error < 0
    /\ tim3_ccr2 = 15

\* C3: a tick entered with interval 0 does not divide by zero and changes
\* neither the measured speed, nor errorSum, nor output, nor the compare
\* register
C3_DegenerateIntervalSkipped ==
    [][(isr_pc = "regulate" /\ fan_control_time_interval = 0)
          => /\ ~fault'
             /\ UNCHANGED << fan_control_actual_RPM, errorSum, output,
                             tim3_ccr2 >>]_vars

\* C4: a tick with interval > 0 sets the measured speed to
\* (10000 / (interval * 2)) * 60, the division truncating; 3000 for 100
C4_SpeedFormula ==
    [][(TickStep /\ fan_control_time_interval > 0)
          => /\ fan_control_actual_RPM'
                  = (10000 \div (fan_control_time_interval * 2)) * 60
             /\ (fan_control_time_interval = 100
                     => fan_control_actual_RPM' = 3000)]_vars

\* a tick has run on an interval whose quotient is truncated (10000 / 202)
C4_Witness ==
    /\ isr_pc = "reset"
    /\ fan_control_time_interval = 101
    /\ fan_control_actual_RPM = 2940

\* C5: the edges alternate: the odd ones find Idle and start the counter,
\* the even ones find Measuring and stop it; outside the callback the state
\* is Measuring exactly after an odd number of edges, and the counter runs
\* exactly in Measuring
C5_CaptureAlternation ==
    /\ [](isr_pc = "none" =>
             /\ fan_start_flag = edges % 2
             /\ tim2_en <=> (fan_start_flag = 1))
    /\ [][(edges' = edges + 1) =>
             \/ /\ edges % 2 = 0
                /\ fan_start_flag = 0 /\ fan_start_flag' = 1
                /\ ~tim2_en /\ tim2_en'
             \/ /\ edges % 2 = 1
                /\ fan_start_flag = 1
                /\ tim2_en /\ ~tim2_en'
                /\ fan_control_time_interval' = tim2_cnt]_vars

\* two measurement windows have been opened and closed
C5_Witness ==
    /\ edges = 4
    /\ isr_pc = "none"
    /\ fan_start_flag = 0
    /\ ticks = 2

\* the correctly rounded float quotient n / d, for 0 <= n and 0 < d
RECURSIVE DivSignificand(_, _, _, _)
DivSignificand(q, r, d, e) ==
    IF q < Two23 THEN
        DivSignificand(2 * q + (IF 2 * r >= d THEN 1 ELSE 0),
                       (2 * r) % d, d, e - 1)
    ELSE LET q2 == IF 2 * r > d \/ (2 * r = d /\ q % 2 = 1)
                   THEN q + 1 ELSE q
         IN  IF q2 = Two24 THEN [s |-> 1, m |-> Two23, e |-> e + 1]
             ELSE [s |-> 1, m |-> q2, e |-> e]

FloatQuotient(n, d) ==
    IF n = 0 THEN FZero ELSE DivSignificand(n \div d, n % d, d, 0)

\* C6: a tick entered with errorSum = 0, error 200 and interval 100 writes
\* 199 to the compare register and leaves errorSum at 0
C6_Scenario2 ==
    [][(TickStep /\ errorSum = 0 /\ error' = 200
          /\ fan_control_time_interval = 100)
          => (tim3_ccr2' = 199 /\ errorSum' = 0)]_vars

\* C7: the sampling period of a tick is interval / 10000 in seconds
C7_SamplingPeriod ==
    [][TickStep => Ta' = FloatQuotient(fan_control_time_interval, 10000)]_vars

C9_OpeningEdgeNoOutput ==
    [][(isr_pc = "none" /\ fan_start_flag = 0 /\ edges' = edges + 1)
          => /\ tim2_en'
             /\ fan_start_flag' = 1
             /\ ticks' = ticks
             /\ isr_pc' = "none"
             /\ UNCHANGED << fan_control_time_interval,
                             fan_control_actual_RPM, errorSum, output,
                             tim3_ccr2 >>]_vars

\* a window has been opened after a tick that left non-zero values
C9_Witness ==
    /\ edges = 3
    /\ isr_pc = "none"
    /\ fan_start_flag = 1
    /\ fan_control_time_interval = 100
    /\ errorSum = 200
    /\ tim3_ccr2 = 196

\* C10 as stated: regulateFanSpeed runs with the counter already zero and
\* the capture state already Idle
C10_TickRunsAfterReset ==
    isr_pc = "regulate" => (tim2_cnt = 0 /\ fan_start_flag = 0)

\* C10 amended: the closing edge stops the counter, reads it as interval,
\* calls regulateFanSpeed, and only after its return resets the counter and
\* sets Idle; the tick runs with the counter stopped and still holding
\* interval, and with the capture state still Measuring
C10_TickRunsBeforeReset ==
    /\ [](isr_pc \in {"regulate", "reset"} =>
             /\ ~tim2_en
             /\ tim2_cnt = fan_control_time_interval
             /\ fan_start_flag = 1)
    /\ [][(isr_pc' # isr_pc) =>
             \/ /\ isr_pc = "none" /\ isr_pc' = "regulate"
                /\ fan_start_flag = 1
                /\ fan_control_time_interval' = tim2_cnt
                /\ ticks' = ticks
             \/ /\ isr_pc = "regulate" /\ isr_pc' = "reset"
                /\ ticks' = ticks + 1
                /\ UNCHANGED << tim2_cnt, fan_start_flag >>
             \/ /\ isr_pc = "reset" /\ isr_pc' = "none"
                /\ tim2_cnt' = 0
                /\ fan_start_flag' = 0
                /\ ticks' = ticks]_vars

\* regulateFanSpeed has returned and the counter still holds the interval
C10_Witness ==
    /\ isr_pc = "reset"
    /\ tim2_cnt = 100
    /\ fan_control_time_interval = 100
    /\ fan_start_flag = 1
    /\ pwm_writes = ticks

\* C12: once the handler of the last edge has returned and no further edge
\* arrives, no tick runs and measured speed, interval, errorSum and compare
\* register keep their values whatever fan_control_set_rpm does to the
\* target; a stall in Measuring stays in Measuring with the counter running
C12_StallHoldsLastValues ==
    [][(isr_pc = "none" /\ edges' = edges)
          => /\ isr_pc' = "none"
             /\ ticks' = ticks
             /\ pwm_writes' = pwm_writes
             /\ UNCHANGED << fan_control_actual_RPM,
                             fan_control_time_interval, errorSum, tim3_ccr2,
                             fan_start_flag, tim2_en >>
             /\ (fan_start_flag = 1 => tim2_en)]_vars

\* the fan has stalled in Measuring after one tick, the counter has gone on
\* counting and the target is no longer the one the tick has used
C12_Witness ==
    /\ isr_pc = "none"
    /\ edges = 3
    /\ ticks = 1
    /\ fan_start_flag = 1
    /\ tim2_en
    /\ count_steps = MaxCountSteps
    /\ fan_control_actual_RPM = 3000
    /\ tim3_ccr2 = 196
    /\ targetRPM # fan_control_actual_RPM + error

\* C17: in a tick with interval > 0 the value written to the compare
\* register is 0.98 * error + 2.1 * errorSum * (interval / 10000), errorSum
\* taken after the addition of error, limited to [15, 199] and truncated
C17_PILaw ==
    [][(TickStep /\ fan_control_time_interval > 0)
          => LET law == FAdd(FMul(FloatQuotient(98, 100), IntToFloat(error')),
                             FMul(FMul(FloatQuotient(21, 10),
                                       IntToFloat(errorSum + error')),
                                  FloatQuotient(fan_control_time_interval,
                                                10000)))
                 lim == IF FGt(law, IntToFloat(199)) THEN IntToFloat(199)
                        ELSE IF FLt(law, IntToFloat(15)) THEN IntToFloat(15)
                        ELSE law
             IN  tim3_ccr2' = FloatToU32(lim)]_vars

\* C18: the target is in [0, 4500], and the error of every tick is the
\* mathematical difference of target and measured speed, negative when the
\* measured speed is the larger one
C18_SignedError ==
    /\ [](targetRPM \in 0 .. 4500)
    /\ [][TickStep
             => /\ error' = targetRPM - fan_control_actual_RPM'
                /\ (fan_control_actual_RPM' > targetRPM => error' < 0)]_vars

\* a tick has measured 300000 rpm (interval 1) against a target of 3100
C18_Witness ==
    /\ isr_pc = "reset"
    /\ targetRPM = 3100
    /\ fan_control_actual_RPM = 300000
    /\ error = -296900

\* C19: errorSum is 0 before the first tick; a tick that is not limited
\* adds its error to errorSum, a limited one leaves errorSum as it was, and
\* no other step changes it; the output of a tick is determined by the
\* error and sampling period of that tick and by errorSum
C19_AccumulatorPersistence ==
    /\ [](ticks = 0 => errorSum = 0)
    /\ [][IF TickStep
          THEN /\ errorSum' \in {errorSum, errorSum + error'}
               /\ (tim3_ccr2' \notin {15, 199}
                      => errorSum' = errorSum + error')
               /\ (~FGt(RawOutput, IntToFloat(199))
                      /\ ~FLt(RawOutput, IntToFloat(15))
                      => /\ errorSum' = errorSum + error'
                         /\ output' = RawOutput)
          ELSE errorSum' = errorSum]_vars

\* the second tick has added its error 100 to the 200 kept from the first
C19_Witness ==
    /\ isr_pc = "reset"
    /\ ticks = 2
    /\ error = 100
    /\ errorSum = 300
    /\ tim3_ccr2 = 98

\* sum of the samples at the even indexes i, i + 2, ... of a DMA buffer
RECURSIVE EvenIndexSum(_, _)
EvenIndexSum(buf, i) ==
    IF i > 198 THEN 0 ELSE buf[i] + EvenIndexSum(buf, i + 2)

\* for each content of the DMA buffer: whether all samples are 12-bit, the
\* sum and the integer mean of the 100 even-indexed samples, and the mean
\* scaled by 4500 / 4095
EvenIndexScaled ==
    [buf \in DmaBuffers |->
        LET sum == EvenIndexSum(buf, 0)
        IN  [ twelve_bit |-> \A i \in 0 .. 199 : buf[i] \in 0 .. 4095,
              sum        |-> sum,
              avg        |-> sum \div 100,
              rpm        |-> ((sum \div 100) * 4500) \div 4095 ]]

\* C20: fan_control_poti_val and targetRPM are floor(avg * 4500 / 4095),
\* avg the integer mean of the 100 even-indexed samples of the buffer read
\* last; samples are 12-bit, the result is in [0, 4500], no intermediate
\* value exceeds 32 bits, and the call changes nothing else of the
\* controller or of the capture
C20_SetpointScaling ==
    [][(dma_seen' # dma_seen \/ targetRPM' # targetRPM
          \/ fan_control_poti_val' # fan_control_poti_val)
          => /\ dma_seen' \in DmaBuffers
             /\ LET read == EvenIndexScaled[dma_seen']
                IN  /\ read.twelve_bit
                    /\ read.sum <= MaxInt32
                    /\ read.avg * 4500 <= MaxInt32
                    /\ targetRPM' = read.rpm
                    /\ fan_control_poti_val' = read.rpm
                    /\ read.rpm \in 0 .. 4500
             /\ UNCHANGED << fan_control_time_interval, fan_start_flag,
                             fan_control_actual_RPM, errorSum, output,
                             error, Ta, tim2_cnt, tim2_en, tim3_ccr2,
                             isr_pc, ticks, pwm_writes, edges >>]_vars

\* the setpoint has been read, with both divisions truncating, while the
\* controller holds the results of a tick
C20_Witness ==
    /\ dma_seen = DmaBuffer(2821, 2822, 50, 0)
    /\ targetRPM = 3100
    /\ fan_control_poti_val = 3100
    /\ isr_pc = "none"
    /\ ticks = 1
    /\ errorSum = 200
    /\ tim3_ccr2 = 196

\* C11: errorSum and output change only in a call of regulateFanSpeed, where
\* errorSum first becomes errorSum + error and, when output is limited,
\* errorSum - error again; the display statements, fan_control_set_rpm, the
\* opening edge and the other steps of the callback leave both alone
C11_AccumulatorOwnership ==
    [][IF TickStep
       THEN \/ errorSum' = errorSum + error'
            \/ /\ errorSum' = (errorSum + error') - error'
               /\ tim3_ccr2' \in {15, 199}
       ELSE UNCHANGED << errorSum, output >>]_vars

\* after a tick that left errorSum and output non-zero the main loop has
\* displayed that tick's speed, set the target and a next window has opened
C11_Witness ==
    /\ ticks = 1
    /\ edges = 3
    /\ isr_pc = "none"
    /\ main_pc = "show_target"
    /\ disp_rpm = 3000
    /\ targetRPM = 3100
    /\ errorSum = 100
    /\ output = IntToFloat(98)

\* C13: from the capture of the interval to the return of the handler no
\* statement of the main loop runs and the target does not change; error,
\* errorSum and output of a tick are computed from that one target
C13_AtomicTick ==
    /\ [][(isr_pc # "none" \/ isr_pc' # "none")
             => UNCHANGED << main_pc, disp_target, disp_interval, disp_rpm,
                             dma_seen, targetRPM, fan_control_poti_val >>]_vars
    /\ [][TickStep
             => LET e == targetRPM - fan_control_actual_RPM'
                    raw == PIOutput(e, errorSum + e, Ta')
                IN  /\ error' = e
                    /\ errorSum' \in {errorSum + e, errorSum}
                    /\ output' \in {raw, IntToFloat(15), IntToFloat(199)}
                    /\ tim3_ccr2' = FloatToU32(output')]_vars

\* a tick has completed inside the handler while the main loop stands
\* between its display of the target and its display of the interval
C13_Witness ==
    /\ isr_pc = "reset"
    /\ main_pc = "show_interval"
    /\ disp_target = 3100
    /\ targetRPM = 3100
    /\ error = 100
    /\ tim3_ccr2 = 98

C15_MedianResult ==
    median_calls > 0 =>
        \E i \in 0 .. 8 :
            /\ median_ret = ringBuffer[i]
            /\ Cardinality({j \in 0 .. 8 : ringBuffer[j] < ringBuffer[i]}) <= 4
            /\ Cardinality({j \in 0 .. 8 : ringBuffer[j] <= ringBuffer[i]}) >= 5

\* C16: the first press starts the timer and sets start_flag without a lap;
\* every later press prints one lap and leaves the timer running; start_flag
\* never returns to 0
C16_ButtonProtocol ==
    /\ [](/\ start_flag = (IF presses = 0 THEN 0 ELSE 1)
          /\ sw_timer_on <=> (start_flag = 1)
          /\ laps = (IF presses = 0 THEN 0 ELSE presses - 1))
    /\ [][(presses' = presses + 1) =>
             IF start_flag = 0
             THEN /\ sw_timer_on' /\ start_flag' = 1
                  /\ laps' = laps
                  /\ UNCHANGED << lap_line, line_num, lcd_lines >>
             ELSE /\ laps' = laps + 1
                  /\ lap_line' = line_num
                  /\ sw_timer_on' /\ start_flag' = 1]_vars
    /\ [][start_flag = 1 => start_flag' = 1]_vars

\* three presses, with timer overflows before and after the minute, have
\* printed two laps and the stopwatch is still running
C16_Witness ==
    /\ presses = 3
    /\ laps = 2
    /\ lap_line = 2
    /\ start_flag = 1
    /\ sw_timer_on
    /\ minutes = 1
    /\ seconds = 1

\* C21: between callbacks seconds is in [0, 59]; seconds and minutes change
\* only while start_flag is 1, and then either seconds goes up by one below
\* 60, or seconds goes from 59 to 0 and minutes goes up by one
C21_TimeInvariants ==
    /\ [](seconds \in 0 .. 59)
    /\ [][start_flag = 0 => UNCHANGED << seconds, minutes >>]_vars
    /\ [][(seconds' # seconds \/ minutes' # minutes)
             => /\ start_flag = 1
                /\ IF seconds + 1 = 60
                   THEN seconds' = 0 /\ minutes' = minutes + 1
                   ELSE seconds' = seconds + 1 /\ minutes' = minutes]_vars

\* the running stopwatch has just passed a full minute
C21_Witness ==
    /\ start_flag = 1
    /\ minutes = 1
    /\ seconds = 0
    /\ presses = 1

\* C22: line_num is always in [1, 15]; the n-th lap is printed on line
\* ((n - 1) mod 15) + 1; a print on a line below 15 moves line_num to the
\* next line, the print on line 15 sets line_num to 1 and clears the screen
C22_LapLineWrap ==
    /\ [](line_num \in 1 .. 15)
    /\ [](laps > 0 => lap_line = ((laps - 1) % 15) + 1)
    /\ [][(laps' = laps + 1)
             => /\ lap_line' = line_num
                /\ IF line_num = 15
                   THEN line_num' = 1 /\ lcd_lines' = {}
                   ELSE /\ line_num' = line_num + 1
                        /\ lcd_lines' = lcd_lines \cup {line_num}]_vars

\* the 16th lap has been printed on line 1 of the cleared screen
C22_Witness ==
    /\ laps = 16
    /\ lap_line = 1
    /\ line_num = 2
    /\ lcd_lines = {1}

\* 15 if 0.98 * e < 15, 199 if 0.98 * e > 199, otherwise 0.98 * e truncated
DutyOf(e) ==
    IF 98 * e < 15 * 100 THEN 15
    ELSE IF 98 * e > 199 * 100 THEN 199
    ELSE (98 * e) \div 100

C24_AccumulatorMonotonic ==
    /\ [](errorSum >= 0)
    /\ [][(errorSum' # errorSum)
             => /\ TickStep
                /\ errorSum' - errorSum = error'
                /\ error' \in 16 .. 203]_vars
    /\ [][(TickStep /\ error' < 0) => errorSum' = errorSum]_vars

\* after a tick that kept its error 200, a tick with a negative error has
\* left the accumulator at 200
C24_Witness ==
    /\ isr_pc = "reset"
    /\ ticks = 2
    /\ error < 0
    /\ errorSum = 200
    /\ fan_control_time_interval \in 1 .. 9999

\* C25: the interval is always in [0, 9999]; the closing edge stores the
\* ticks elapsed since the opening edge modulo 10000, so 0 for 10000 ticks;
\* a tick entered with interval 0 evaluates the division by zero
C25_IntervalWraps ==
    /\ [](/\ fan_control_time_interval \in 0 .. 9999
          /\ tim2_cnt \in 0 .. 9999)
    /\ [][(isr_pc = "none" /\ isr_pc' = "regulate")
             => /\ fan_control_time_interval' = elapsed % 10000
                /\ (elapsed \in {0, 10000}
                      => fan_control_time_interval' = 0)]_vars
    /\ [][(isr_pc = "regulate" /\ fan_control_time_interval = 0
             /\ (fault' # fault \/ isr_pc' # isr_pc))
             => (fault' \/ (ticks' = ticks + 1
                             /\ fan_control_actual_RPM' = 0))]_vars

\* two edges 10000 ticks apart have given interval 0 and the division has
\* trapped
C25_Witness ==
    /\ elapsed = 10000
    /\ fan_control_time_interval = 0
    /\ fault

\* C26: the k-th interval is the counter time from edge 2k-1 to edge 2k;
\* outside the callback the counter is stopped in Idle, and 0 once a
\* measurement has completed, and running in Measuring; the time from edge
\* 2k to edge 2k+1 is not counted
C26_AlternateHalfPeriods ==
    /\ [](isr_pc = "none" =>
             /\ (fan_start_flag = 0 =>
                    /\ ~tim2_en
                    /\ (edges >= 2 => tim2_cnt = 0))
             /\ (fan_start_flag = 1 => tim2_en /\ edges % 2 = 1))
    /\ [][(isr_pc = "none" /\ isr_pc' = "regulate")
             => /\ edges' = 2 * (ticks + 1)
                /\ fan_control_time_interval' = elapsed % 10000]_vars
    /\ [][(edges' = edges + 1 /\ edges % 2 = 0)
             => /\ elapsed' = 0
                /\ tim2_cnt' = IF edges = 0 THEN tim2_cnt ELSE 0]_vars
    /\ [][(fan_start_flag = 0 /\ isr_pc = "none")
             => (tim2_cnt' = tim2_cnt /\ elapsed' \in {elapsed, 0})]_vars

\* the second measurement has been taken between edges 3 and 4
C26_Witness ==
    /\ edges = 4
    /\ ticks = 1
    /\ isr_pc = "regulate"
    /\ elapsed = 101
    /\ fan_control_time_interval = 101

\* C27: until the first call of regulateFanSpeed has written it, the compare
\* register holds the configured pulse 0, which is outside [15, 199]; from
\* the first write on it is in [15, 199]
C27_DutyBeforeFirstTick ==
    /\ [](pwm_writes = 0 => (tim3_ccr2 = 0 /\ tim3_ccr2 \notin 15 .. 199))
    /\ [](pwm_writes > 0 => (edges >= 2 /\ tim3_ccr2 \in 15 .. 199))
    /\ [][(tim3_ccr2' # tim3_ccr2) => TickStep]_vars

\* the first window is open, a target is set and the register is still 0
C27_Witness ==
    /\ edges = 1
    /\ fan_start_flag = 1
    /\ count_steps = MaxCountSteps
    /\ targetRPM = 4500
    /\ pwm_writes = 0
    /\ tim3_ccr2 = 0

====
